---------------------------- MODULE Spec2Model ----------------------------
(***************************************************************************)
(* A model of the TOSCA export and of the relation entities of the CNA     *)
(* quality tool:                                                           *)
(*   - transformToYamlKey, the name sanitizer            (SpecSanitizer)   *)
(*   - convertToServiceTemplate with its UniqueKeyManager (SpecExport)     *)
(*   - the Link entity                                    (SpecLink)       *)
(*   - the DeploymentMapping entity                       (SpecDeployment) *)
(* Strings are sequences of one-character strings, so that trimming,       *)
(* replacing and lower-casing are computed character by character.         *)
(***************************************************************************)
EXTENDS Integers, Sequences, FiniteSets, TLC

VARIABLES
    san,              \* the sanitizer call: [name, key, done]
    system,           \* the exported System: [dataAggregates, backingData]
    usedKeys,         \* UniqueKeyManager: the keys issued so far
    returnedKeys,     \* the keys ensureUniqueness returned, in call order
    nodeTemplates,    \* topologyTemplate.node_templates: key -> node template
    keyToIdMapping,   \* keyToIdMapping: key -> entity id
    pc,               \* position of convertToServiceTemplate in its two loops
    documents,        \* the documents convertToServiceTemplate returned so far
    systemEntity,     \* ToscaConverter: the System handed to the constructor
    toscaConverter,   \* ToscaConverter: position, templates, error, download
    invocations,      \* interleaved convertToServiceTemplate calls: their locals
    relation,         \* the RelationToDataAggregate / RelationToBackingData object
    relationCall,     \* the last call on it: [op, key, value, outcome]
    components,       \* per component: its endpoint and external endpoint ids
    link,             \* the Link object, or NoLink
    linkCall,         \* the last call on Link: [op, source, target, outcome]
    mapping,          \* the DeploymentMapping object, or NoMapping
    dmCall            \* the last call on DeploymentMapping

sanVars == <<san>>
exportVars == <<system, usedKeys, returnedKeys, nodeTemplates, keyToIdMapping, pc,
                documents>>
converterVars == <<systemEntity, toscaConverter>>
linkVars == <<components, link, linkCall>>
dmVars == <<mapping, dmCall>>
concurrentVars == <<invocations>>
relationVars == <<relation, relationCall>>
vars == <<san, system, usedKeys, returnedKeys, nodeTemplates, keyToIdMapping, pc,
          documents, systemEntity, toscaConverter, invocations,
          relation, relationCall,
          components, link, linkCall, mapping, dmCall>>

--------------------------------------------------------------------------
(* Bounds *)

MaxNameLen == 4

--------------------------------------------------------------------------
(* Characters *)

\* the characters /\s/ matches and trim() strips (two representatives)
MATCH_WHITESPACES == {" ", "\t"}

\* the characters of /[#>\-\.]/
MATCH_UNWANTED_CHARACTERS == {"#", ">", "-", "."}

Alphabet == MATCH_WHITESPACES \cup MATCH_UNWANTED_CHARACTERS \cup {"_", "a", "A"}

RECURSIVE StringsOfLen(_)
StringsOfLen(n) ==
    IF n = 0 THEN {<<>>}
    ELSE {Append(s, c) : s \in StringsOfLen(n - 1), c \in Alphabet}

Strings == UNION {StringsOfLen(n) : n \in 0..MaxNameLen}

Min(S) == CHOOSE x \in S : \A y \in S : x <= y
Max(S) == CHOOSE x \in S : \A y \in S : x >= y

--------------------------------------------------------------------------
(* transformToYamlKey *)

\* String.prototype.trim
trim(s) ==
    LET solid == {i \in 1..Len(s) : s[i] \notin MATCH_WHITESPACES}
    IN  IF solid = {} THEN <<>> ELSE SubSeq(s, Min(solid), Max(solid))

\* s.replace(/[set]/g, "_"): every single matching character becomes "_"
replaceEach(s, set) ==
    [i \in 1..Len(s) |-> IF s[i] \in set THEN "_" ELSE s[i]]

\* s.replace(/_+/g, "_"): every maximal run of underscores becomes one "_"
RECURSIVE replaceUnderscoreRuns(_)
replaceUnderscoreRuns(s) ==
    IF Len(s) = 0 THEN <<>>
    ELSE IF Len(s) >= 2 /\ s[1] = "_" /\ s[2] = "_"
         THEN replaceUnderscoreRuns(Tail(s))
         ELSE <<s[1]>> \o replaceUnderscoreRuns(Tail(s))

UpperCaseLetters ==
    <<"A", "B", "C", "D", "E", "F", "G", "H", "I", "J", "K", "L", "M",
      "N", "O", "P", "Q", "R", "S", "T", "U", "V", "W", "X", "Y", "Z">>
LowerCaseLetters ==
    <<"a", "b", "c", "d", "e", "f", "g", "h", "i", "j", "k", "l", "m",
      "n", "o", "p", "q", "r", "s", "t", "u", "v", "w", "x", "y", "z">>

lowerCaseOf(c) ==
    IF \E i \in 1..26 : UpperCaseLetters[i] = c
    THEN LowerCaseLetters[CHOOSE i \in 1..26 : UpperCaseLetters[i] = c]
    ELSE c

toLocaleLowerCase(s) ==
    [i \in 1..Len(s) |-> lowerCaseOf(s[i])]

\* a mutant: the underscore runs are not collapsed
transformToYamlKey_NoCollapse(name) ==
    toLocaleLowerCase(
        replaceEach(replaceEach(trim(name), MATCH_WHITESPACES),
                    MATCH_UNWANTED_CHARACTERS))

\* a mutant: the underscore runs are collapsed before the unwanted
\* characters are replaced
transformToYamlKey_CollapseEarly(name) ==
    toLocaleLowerCase(
        replaceEach(
            replaceUnderscoreRuns(replaceEach(trim(name), MATCH_WHITESPACES)),
            MATCH_UNWANTED_CHARACTERS))

\* a mutant: the unwanted characters are not replaced
transformToYamlKey_KeepUnwanted(name) ==
    toLocaleLowerCase(
        replaceUnderscoreRuns(replaceEach(trim(name), MATCH_WHITESPACES)))

\* a mutant: the name is not trimmed
transformToYamlKey_NoTrim(name) ==
    toLocaleLowerCase(
        replaceUnderscoreRuns(
            replaceEach(replaceEach(name, MATCH_WHITESPACES),
                        MATCH_UNWANTED_CHARACTERS)))

transformToYamlKey(name) ==
    toLocaleLowerCase(
        replaceUnderscoreRuns(
            replaceEach(replaceEach(trim(name), MATCH_WHITESPACES),
                        MATCH_UNWANTED_CHARACTERS)))

--------------------------------------------------------------------------
(* Idle values of the parts a specification does not exercise *)

NoLink == [exists |-> FALSE]
NoMapping == [exists |-> FALSE]
NoCall == [op |-> "none", outcome |-> "ok"]

SanIdle == san = [name |-> <<>>, key |-> <<>>, done |-> FALSE]

ExportIdle ==
    /\ system = [name |-> <<>>, dataAggregates |-> <<>>, backingData |-> <<>>]
    /\ usedKeys = {}
    /\ returnedKeys = <<>>
    /\ nodeTemplates = <<>>
    /\ keyToIdMapping = <<>>
    /\ pc = [da |-> 1, bd |-> 1, done |-> TRUE]
    /\ documents = <<>>

\* the value undefined: no string of characters equals it
Undefined == <<"undefined">>

NoDownload == [exists |-> FALSE]

ConverterIdle ==
    /\ systemEntity = [name |-> <<>>]
    /\ toscaConverter = [pc |-> "idle", completed |-> <<>>,
                         nodeTemplates |-> <<>>, relationshipTemplates |-> <<>>,
                         thrown |-> "none", download |-> NoDownload]

ConcurrentIdle == invocations = <<>>

NoRelation == [exists |-> FALSE]

RelationIdle ==
    /\ relation = NoRelation
    /\ relationCall = [op |-> "none", outcome |-> "ok"]

LinkIdle ==
    /\ components = <<>>
    /\ link = NoLink
    /\ linkCall = NoCall

DMIdle ==
    /\ mapping = NoMapping
    /\ dmCall = NoCall

--------------------------------------------------------------------------
(* The sanitizer applied to every name up to MaxNameLen characters *)

InitSanitizer ==
    /\ \E s \in Strings : san = [name |-> s, key |-> <<>>, done |-> FALSE]
    /\ ExportIdle /\ ConverterIdle /\ LinkIdle /\ DMIdle
    /\ ConcurrentIdle /\ RelationIdle

Sanitize ==
    /\ ~san.done
    /\ san' = [san EXCEPT !.key = transformToYamlKey(san.name), !.done = TRUE]
    /\ UNCHANGED <<exportVars, converterVars, linkVars, dmVars,
                   concurrentVars, relationVars>>

NextSanitizer == Sanitize

SpecSanitizer == InitSanitizer /\ [][NextSanitizer]_vars

\* the five steps as the specification lists them; step (2) replaces a whole
\* whitespace run by one underscore
RECURSIVE replaceWhitespaceRuns(_)
replaceWhitespaceRuns(s) ==
    IF Len(s) = 0 THEN <<>>
    ELSE IF s[1] \in MATCH_WHITESPACES
         THEN IF Len(s) >= 2 /\ s[2] \in MATCH_WHITESPACES
              THEN replaceWhitespaceRuns(Tail(s))
              ELSE <<"_">> \o replaceWhitespaceRuns(Tail(s))
         ELSE <<s[1]>> \o replaceWhitespaceRuns(Tail(s))

SanitizeAsSpecified(name) ==
    toLocaleLowerCase(
        replaceUnderscoreRuns(
            replaceEach(replaceWhitespaceRuns(trim(name)),
                        MATCH_UNWANTED_CHARACTERS)))

\* C2: sanitizing a sanitized name changes nothing:
\* transformToYamlKey(transformToYamlKey(s)) = transformToYamlKey(s).
C2_Idempotent ==
    san.done => transformToYamlKey(san.key) = san.key

\* C2 witness: a name the sanitizer had to change has been sanitized
C2_Witness ==
    san.done /\ san.key # san.name /\ Len(san.key) >= 2

\* C3: the sanitized key holds no whitespace, none of # > - . and no two
\* consecutive underscores.
C3_CleanKey ==
    san.done =>
        /\ \A i \in 1..Len(san.key) :
              san.key[i] \notin MATCH_WHITESPACES \cup MATCH_UNWANTED_CHARACTERS
        /\ \A i \in 1..(Len(san.key) - 1) :
              ~(san.key[i] = "_" /\ san.key[i + 1] = "_")

\* C3 witness: a name with whitespace inside, an unwanted character and an
\* underscore next to it has been sanitized
C3_Witness ==
    /\ san.done
    /\ \E i \in 1..Len(san.name) : san.name[i] \in MATCH_UNWANTED_CHARACTERS
    /\ \E i \in 2..(Len(san.name) - 1) : san.name[i] \in MATCH_WHITESPACES
    /\ Len(san.key) >= 2

\* C4: the key equals the result of trim, whitespace runs to one underscore,
\* # > - . to underscore, underscore runs to one, lower-case, in this order.
C4_AsSpecified ==
    san.done => san.key = SanitizeAsSpecified(san.name)

\* C4 witness: a name with a run of two whitespace characters inside (where
\* the code's per-character replacement differs from a per-run one) and an
\* upper-case letter has been sanitized
C4_Witness ==
    /\ san.done
    /\ \E i \in 2..(Len(san.name) - 2) :
          san.name[i] \in MATCH_WHITESPACES /\ san.name[i + 1] \in MATCH_WHITESPACES
    /\ \E i \in 1..Len(san.name) : san.name[i] = "A"
    /\ san.key = <<"a", "_", "a">>

--------------------------------------------------------------------------
(* UniqueKeyManager and convertToServiceTemplate *)

\* the number of data aggregates and backing data of a System, together
MaxEntities == 3

\* the names given to data aggregates and backing data; several of them
\* sanitize to the same key, one to the suffixed form of another, and one
\* is whitespace only
EntityNames ==
    { <<"a">>, <<"A">>, <<"a", "_", "2">>, <<" ">>,
      <<"O", "r", "d", "e", "r", " ", " ", "D", "a", "t", "a">> }

SystemNames == { <<"S", "h", "o", "p">> }

\* the included data of a backing data entity: a list of key/value items
IncludedDataLists == { <<>>, <<[key |-> "k", value |-> "v"]>> }

\* the data aggregates of a System: n entities, ids unique within the collection
DataAggregateLists(n) ==
    { [i \in 1..n |->
          [id |-> <<"da", i>>, name |-> names[i],
           metaData |-> <<"meta", "da", i>>]] :
        names \in [1..n -> EntityNames] }

\* the backing data of a System
BackingDataLists(n) ==
    { [i \in 1..n |->
          [id |-> <<"bd", i>>, name |-> names[i],
           metaData |-> <<"meta", "bd", i>>,
           includedData |-> data[i]]] :
        names \in [1..n -> EntityNames],
        data \in [1..n -> IncludedDataLists] }

TOSCA_DEFINITIONS_VERSION == "tosca_simple_yaml_1_3"
DATA_AGGREGATE_TOSCA_KEY == "cna.qualityModel.entities.DataAggregate"
BACKING_DATA_TOSCA_KEY == "cna.qualityModel.entities.BackingData"

withSuffix(key, n) == key \o <<"_", ToString(n)>>

\* a mutant: on a collision the suffix _2 is appended without checking the
\* suffixed key
ensureUniqueness_NoRetry(used, candidateKey) ==
    IF candidateKey \notin used THEN candidateKey
    ELSE withSuffix(candidateKey, 2)

\* UniqueKeyManager.ensureUniqueness: the candidate if it is free, otherwise
\* the candidate with the smallest suffix _2, _3, ... that is free
ensureUniqueness(used, candidateKey) ==
    IF candidateKey \notin used THEN candidateKey
    ELSE LET free == {n \in 2..(Cardinality(used) + 2) :
                         withSuffix(candidateKey, n) \notin used}
         IN  withSuffix(candidateKey, Min(free))

\* object[key] = value, Map.set(key, value)
put(map, key, value) ==
    [k \in DOMAIN map \cup {key} |-> IF k = key THEN value ELSE map[k]]

\* flatMetaData of common/entityDataTypes: the flattened meta data, kept as
\* an uninterpreted value
flatMetaData(metaData) == <<"flat", metaData>>

dataAggregateToTemplate(dataAggregate) ==
    [type |-> DATA_AGGREGATE_TOSCA_KEY,
     metadata |-> flatMetaData(dataAggregate.metaData)]

\* for (const data of ...) includedData[data.key] = data.value
RECURSIVE foldIncludedData(_, _)
foldIncludedData(items, includedData) ==
    IF Len(items) = 0 THEN includedData
    ELSE foldIncludedData(Tail(items),
                          put(includedData, items[1].key, items[1].value))

\* the truth value of an array: every array, the empty one too, is truthy
truthy(array) == TRUE

backingDataToTemplate(backingData) ==
    IF truthy(backingData.includedData)
    THEN [type |-> BACKING_DATA_TOSCA_KEY,
          metadata |-> flatMetaData(backingData.metaData),
          properties |->
              [includedData |-> foldIncludedData(backingData.includedData, <<>>)]]
    ELSE [type |-> BACKING_DATA_TOSCA_KEY,
          metadata |-> flatMetaData(backingData.metaData)]

\* the local variables of an invocation as lines 29-45 set them
FreshInvocation ==
    /\ usedKeys' = {}
    /\ returnedKeys' = <<>>
    /\ nodeTemplates' = <<>>
    /\ keyToIdMapping' = <<>>
    /\ pc' = [da |-> 1, bd |-> 1, done |-> FALSE]

InitExport ==
    /\ \E n \in 0..MaxEntities, name \in SystemNames :
          \E m \in 0..n :
              \E das \in DataAggregateLists(m), bds \in BackingDataLists(n - m) :
                  system = [name |-> name, dataAggregates |-> das,
                            backingData |-> bds]
    /\ usedKeys = {}
    /\ returnedKeys = <<>>
    /\ nodeTemplates = <<>>
    /\ keyToIdMapping = <<>>
    /\ pc = [da |-> 1, bd |-> 1, done |-> FALSE]
    /\ documents = <<>>
    /\ SanIdle /\ ConverterIdle /\ LinkIdle /\ DMIdle
    /\ ConcurrentIdle /\ RelationIdle

\* a mutant: the id is recorded under the sanitized name, not under the key
\* the manager issued
ConvertEntity_MapsCandidateKey(entity, node) ==
    LET nodeKey == ensureUniqueness(usedKeys, transformToYamlKey(entity.name))
    IN  /\ usedKeys' = usedKeys \cup {nodeKey}
        /\ returnedKeys' = Append(returnedKeys, nodeKey)
        /\ keyToIdMapping' = put(keyToIdMapping, transformToYamlKey(entity.name),
                                 entity.id)
        /\ nodeTemplates' = put(nodeTemplates, nodeKey, node)

\* one iteration of a loop of convertToServiceTemplate over `entity`
ConvertEntity(entity, node) ==
    LET nodeKey == ensureUniqueness(usedKeys, transformToYamlKey(entity.name))
    IN  /\ usedKeys' = usedKeys \cup {nodeKey}
        /\ returnedKeys' = Append(returnedKeys, nodeKey)
        /\ keyToIdMapping' = put(keyToIdMapping, nodeKey, entity.id)
        /\ nodeTemplates' = put(nodeTemplates, nodeKey, node)

\* a mutant: the iteration writes the key back as the entity's name
ConvertDataAggregate_RenamesEntity ==
    /\ ~pc.done
    /\ pc.da <= Len(system.dataAggregates)
    /\ LET dataAggregate == system.dataAggregates[pc.da]
       IN  /\ ConvertEntity(dataAggregate, dataAggregateToTemplate(dataAggregate))
           /\ system' = [system EXCEPT !.dataAggregates[pc.da].name =
                             ensureUniqueness(usedKeys,
                                              transformToYamlKey(dataAggregate.name))]
    /\ pc' = [pc EXCEPT !.da = @ + 1]
    /\ UNCHANGED <<documents, sanVars, converterVars, linkVars, dmVars,
                   concurrentVars, relationVars>>

ConvertDataAggregate ==
    /\ ~pc.done
    /\ pc.da <= Len(system.dataAggregates)
    /\ LET dataAggregate == system.dataAggregates[pc.da]
       IN  ConvertEntity(dataAggregate, dataAggregateToTemplate(dataAggregate))
    /\ pc' = [pc EXCEPT !.da = @ + 1]
    /\ UNCHANGED <<system, documents, sanVars, converterVars, linkVars, dmVars,
                   concurrentVars, relationVars>>

ConvertBackingData ==
    /\ ~pc.done
    /\ pc.da > Len(system.dataAggregates)
    /\ pc.bd <= Len(system.backingData)
    /\ LET backingData == system.backingData[pc.bd]
       IN  ConvertEntity(backingData, backingDataToTemplate(backingData))
    /\ pc' = [pc EXCEPT !.bd = @ + 1]
    /\ UNCHANGED <<system, documents, sanVars, converterVars, linkVars, dmVars,
                   concurrentVars, relationVars>>

\* the service template of lines 32-40 with the topology template of lines 42-45
serviceTemplateOf(systemName, templates) ==
    [tosca_definitions_version |-> TOSCA_DEFINITIONS_VERSION,
     metadata |-> [template_author |-> "CNA modeling tool",
                   template_name |-> systemName,
                   template_version |-> "0.1.0"],
     description |-> "Service template generated by the CNA modeling tool",
     topology_template |->
         [description |-> "Topology template generated by the CNA modeling tool",
          node_templates |-> templates]]

serviceTemplate == serviceTemplateOf(system.name, nodeTemplates)

ReturnServiceTemplate ==
    /\ ~pc.done
    /\ pc.da > Len(system.dataAggregates)
    /\ pc.bd > Len(system.backingData)
    /\ pc' = [pc EXCEPT !.done = TRUE]
    /\ documents' = Append(documents, serviceTemplate)
    /\ UNCHANGED <<system, usedKeys, returnedKeys, nodeTemplates, keyToIdMapping,
                   sanVars, converterVars, linkVars, dmVars,
                   concurrentVars, relationVars>>

\* a mutant: the key manager outlives the invocation and is used again
InvokeAgain_SharedKeyManager ==
    /\ pc.done
    /\ Len(documents) = 1
    /\ usedKeys' = usedKeys
    /\ returnedKeys' = <<>>
    /\ nodeTemplates' = <<>>
    /\ keyToIdMapping' = <<>>
    /\ pc' = [da |-> 1, bd |-> 1, done |-> FALSE]
    /\ UNCHANGED <<system, documents, sanVars, converterVars, linkVars, dmVars,
                   concurrentVars, relationVars>>

\* convertToServiceTemplate is called a second time on the same System
InvokeAgain ==
    /\ pc.done
    /\ Len(documents) = 1
    /\ FreshInvocation
    /\ UNCHANGED <<system, documents, sanVars, converterVars, linkVars, dmVars,
                   concurrentVars, relationVars>>

NextExport ==
    \/ ConvertDataAggregate
    \/ ConvertBackingData
    \/ ReturnServiceTemplate
    \/ InvokeAgain

SpecExport == InitExport /\ [][NextExport]_vars

\* C1: every key ensureUniqueness returns differs from every key the same
\* manager returned before; the same candidate fed twice gives two keys.
C1_ReturnedKeysDistinct ==
    \A i, j \in 1..Len(returnedKeys) :
        i < j => returnedKeys[i] # returnedKeys[j]

\* C1 witness: the same candidate was fed twice and then its suffixed form,
\* so that the suffixed candidate collided as well
C1_Witness ==
    /\ Len(returnedKeys) >= 3
    /\ returnedKeys[1] = <<"a">>
    /\ returnedKeys[2] = <<"a", "_", "2">>
    /\ returnedKeys[3] = <<"a", "_", "2", "_", "2">>

\* the node template stored for the i-th backing data of this invocation
backingDataTemplate(i) ==
    nodeTemplates[returnedKeys[Len(system.dataAggregates) + i]]

OrderData == <<"O", "r", "d", "e", "r", " ", " ", "D", "a", "t", "a">>
order_data == <<"o", "r", "d", "e", "r", "_", "d", "a", "t", "a">>

\* the System holds the one data aggregate "Order  Data" and no backing data
OnlyOrderData ==
    /\ Len(system.dataAggregates) = 1
    /\ system.dataAggregates[1].name = OrderData
    /\ system.backingData = <<>>

C16_SameDocumentTwice ==
    Len(documents) = 2 => documents[1] = documents[2]

\* C16 witness: both invocations returned, and a key in the document carries a
\* collision suffix
C16_Witness ==
    /\ Len(documents) = 2
    /\ <<"a", "_", "2", "_", "2">> \in
           DOMAIN documents[2].topology_template.node_templates

\* C18: a BackingData node template has a properties block holding
\* includedData exactly when the entity has at least one included data item;
\* with an empty list the template has no properties block.
C18_PropertiesIffIncludedData ==
    \A i \in 1..(pc.bd - 1) :
        LET backingData == system.backingData[i]
            template == backingDataTemplate(i)
        IN  IF backingData.includedData # <<>>
            THEN /\ "properties" \in DOMAIN template
                 /\ template.properties =
                        [includedData |->
                            foldIncludedData(backingData.includedData, <<>>)]
            ELSE "properties" \notin DOMAIN template

\* C23: when convertToServiceTemplate has returned, the key-to-id map is a
\* bijection between the node-template keys and the ids of the exported data
\* aggregates and backing data, and every key maps to the id of the entity
\* its template was built from.
C23_KeyToIdBijection ==
    pc.done =>
        LET das == system.dataAggregates
            bds == system.backingData
        IN  /\ DOMAIN keyToIdMapping = DOMAIN nodeTemplates
            /\ Cardinality(DOMAIN keyToIdMapping) = Len(das) + Len(bds)
            /\ \A k1, k2 \in DOMAIN keyToIdMapping :
                   k1 # k2 => keyToIdMapping[k1] # keyToIdMapping[k2]
            /\ {keyToIdMapping[k] : k \in DOMAIN keyToIdMapping} =
                   {das[i].id : i \in 1..Len(das)}
                   \cup {bds[i].id : i \in 1..Len(bds)}
            /\ \A i \in 1..Len(das) :
                   /\ keyToIdMapping[returnedKeys[i]] = das[i].id
                   /\ nodeTemplates[returnedKeys[i]] =
                          dataAggregateToTemplate(das[i])
            /\ \A i \in 1..Len(bds) :
                   /\ keyToIdMapping[returnedKeys[Len(das) + i]] = bds[i].id
                   /\ nodeTemplates[returnedKeys[Len(das) + i]] =
                          backingDataToTemplate(bds[i])

\* C23 witness: the export returned for a System whose data aggregate and
\* backing data have names that sanitize to the same key; the backing data's
\* id is found under the suffixed key
C23_Witness ==
    /\ pc.done
    /\ Len(system.dataAggregates) = 1
    /\ Len(system.backingData) >= 1
    /\ returnedKeys[1] = <<"a">>
    /\ returnedKeys[2] = <<"a", "_", "2">>
    /\ keyToIdMapping[<<"a", "_", "2">>] = system.backingData[1].id
    /\ system.backingData[1].name = <<"A">>

\* an entity of the System has an empty or whitespace-only name
SomeNameBlank ==
    \/ \E i \in 1..Len(system.dataAggregates) :
           trim(system.dataAggregates[i].name) = <<>>
    \/ \E i \in 1..Len(system.backingData) :
           trim(system.backingData[i].name) = <<>>

\* C22: an empty or whitespace-only name sanitizes to the empty string and
\* the export of a System with such an entity fails: no template is stored
\* under the empty key and no document is returned.
C22_EmptyKeyRejected ==
    /\ \A name \in EntityNames :
           trim(name) = <<>> => transformToYamlKey(name) = <<>>
    /\ <<>> \notin DOMAIN nodeTemplates
    /\ SomeNameBlank => documents = <<>>

--------------------------------------------------------------------------
(* convertToServiceTemplate: two invocations with interleaved steps *)

InvocationIds == {"first", "second"}

\* names that sanitize to one key, or to that key's suffixed form
CollidingNames == { <<"a">>, <<"A">>, <<"a", "_", "2">> }

\* the locals of an invocation at its entry (lines 29-45)
EnteredInvocation ==
    [usedKeys |-> {}, keyToIdMapping |-> <<>>, nodeTemplates |-> <<>>,
     da |-> 1, bd |-> 1, returned |-> FALSE, document |-> <<>>]

InitConcurrent ==
    /\ \E n \in 0..MaxEntities, name \in SystemNames :
          \E m \in 0..n :
              \E das \in DataAggregateLists(m), bds \in BackingDataLists(n - m) :
                  /\ \A i \in 1..m : das[i].name \in CollidingNames
                  /\ \A i \in 1..(n - m) :
                         /\ bds[i].name \in CollidingNames
                         /\ bds[i].includedData # <<>>
                  /\ system = [name |-> name, dataAggregates |-> das,
                               backingData |-> bds]
    /\ usedKeys = {}
    /\ returnedKeys = <<>>
    /\ nodeTemplates = <<>>
    /\ keyToIdMapping = <<>>
    /\ pc = [da |-> 1, bd |-> 1, done |-> TRUE]
    /\ documents = <<>>
    /\ invocations = [i \in InvocationIds |-> EnteredInvocation]
    /\ SanIdle /\ ConverterIdle /\ LinkIdle /\ DMIdle /\ RelationIdle

\* a mutant: one key manager serves all invocations
keysOfManager_Shared(invocation) ==
    UNION {invocations[i].usedKeys : i \in InvocationIds}

\* the keys issued by the UniqueKeyManager the invocation created (line 29)
keysOfManager(invocation) == invocations[invocation].usedKeys

\* one iteration of a loop (lines 48-51, 55-58) in the given invocation
ConvertEntityIn(invocation, entity, node, position) ==
    LET nodeKey == ensureUniqueness(keysOfManager(invocation),
                                    transformToYamlKey(entity.name))
        locals == invocations[invocation]
    IN  invocations' =
            [invocations EXCEPT ![invocation] =
                [locals EXCEPT
                    !.usedKeys = @ \cup {nodeKey},
                    !.keyToIdMapping = put(@, nodeKey, entity.id),
                    !.nodeTemplates = put(@, nodeKey, node),
                    ![position] = @ + 1]]

ConvertDataAggregateIn(invocation) ==
    /\ ~invocations[invocation].returned
    /\ invocations[invocation].da <= Len(system.dataAggregates)
    /\ LET dataAggregate == system.dataAggregates[invocations[invocation].da]
       IN  ConvertEntityIn(invocation, dataAggregate,
                           dataAggregateToTemplate(dataAggregate), "da")
    /\ UNCHANGED <<exportVars, sanVars, converterVars, linkVars, dmVars,
                   relationVars>>

ConvertBackingDataIn(invocation) ==
    /\ ~invocations[invocation].returned
    /\ invocations[invocation].da > Len(system.dataAggregates)
    /\ invocations[invocation].bd <= Len(system.backingData)
    /\ LET backingData == system.backingData[invocations[invocation].bd]
       IN  ConvertEntityIn(invocation, backingData,
                           backingDataToTemplate(backingData), "bd")
    /\ UNCHANGED <<exportVars, sanVars, converterVars, linkVars, dmVars,
                   relationVars>>

ReturnServiceTemplateIn(invocation) ==
    /\ ~invocations[invocation].returned
    /\ invocations[invocation].da > Len(system.dataAggregates)
    /\ invocations[invocation].bd > Len(system.backingData)
    /\ invocations' =
           [invocations EXCEPT
               ![invocation].returned = TRUE,
               ![invocation].document =
                   serviceTemplateOf(system.name,
                                     invocations[invocation].nodeTemplates)]
    /\ UNCHANGED <<exportVars, sanVars, converterVars, linkVars, dmVars,
                   relationVars>>

NextConcurrent ==
    \E invocation \in InvocationIds :
        \/ ConvertDataAggregateIn(invocation)
        \/ ConvertBackingDataIn(invocation)
        \/ ReturnServiceTemplateIn(invocation)

SpecConcurrent == InitConcurrent /\ [][NextConcurrent]_vars

\* the node templates of an invocation that runs alone: the entities in
\* their order, each under the key a manager of its own issues
RECURSIVE templatesAlone(_, _, _)
templatesAlone(entityList, used, templates) ==
    IF entityList = <<>> THEN templates
    ELSE LET entity == Head(entityList)
             nodeKey == ensureUniqueness(used, transformToYamlKey(entity.name))
         IN  templatesAlone(Tail(entityList), used \cup {nodeKey},
                            put(templates, nodeKey,
                                IF "includedData" \in DOMAIN entity
                                THEN backingDataToTemplate(entity)
                                ELSE dataAggregateToTemplate(entity)))

documentAlone ==
    serviceTemplateOf(system.name,
                      templatesAlone(system.dataAggregates \o system.backingData,
                                     {}, <<>>))

\* C21: whatever the interleaving of the steps of two invocations, each
\* returns the document it returns when it runs alone: the keys one
\* invocation issued cause no suffix in the other.
C21_InterleavingIsolated ==
    \A i \in InvocationIds :
        invocations[i].returned => invocations[i].document = documentAlone

\* C21 witness: the first invocation returned while the second had converted
\* some entities and not all, and the System's names collide
C21_Witness ==
    /\ invocations["first"].returned
    /\ ~invocations["second"].returned
    /\ invocations["second"].usedKeys # {}
    /\ invocations["second"].da + invocations["second"].bd
           < Len(system.dataAggregates) + Len(system.backingData) + 2
    /\ <<"a", "_", "2", "_", "2">> \in invocations["first"].usedKeys

--------------------------------------------------------------------------
(* ToscaConverter: the values it reads and the helpers it calls *)

REST == <<"R", "E", "S", "T">>
Topic == <<"T", "o", "p", "i", "c">>
myTOPICs == <<"m", "y", "T", "O", "P", "I", "C", "s">>
topic == <<"t", "o", "p", "i", "c">>
ordersPath == <<"/", "o", "r", "d", "e", "r", "s">>
port80 == <<"8", "0">>
Gateway == <<"G", "a", "t", "e", "w", "a", "y">>
Orders == <<"O", "r", "d", "e", "r", "s">>
worker == <<"w", "o", "r", "k", "e", "r">>
work_er == <<"w", "o", "r", "k", " ", "e", "r">>
node1 == <<"n", "o", "d", "e", " ", "1">>

\* `${value}`: a template literal writes undefined as the word
interpolate(value) ==
    IF value = Undefined
    THEN <<"u", "n", "d", "e", "f", "i", "n", "e", "d">>
    ELSE value

\* the result of an expression: what it threw, or its value
Thrown == [thrown |-> TRUE]
Value(v) == [thrown |-> FALSE, value |-> v]

\* array.map(callback) where a callback may throw
mapped(results) ==
    IF \E i \in 1..Len(results) : results[i].thrown THEN Thrown
    ELSE Value([i \in 1..Len(results) |-> results[i].value])

\* string.includes(searchString)
includes(string, searchString) ==
    \E i \in 1..(Len(string) - Len(searchString) + 1) :
        SubSeq(string, i, i + Len(searchString) - 1) = searchString

\* a mutant: the test for "topic" is made on the type as written
includesTopic_CaseSensitive(endpointType) ==
    includes(endpointType, topic)

\* endpointType.toLowerCase().includes("topic")
includesTopic(endpointType) ==
    includes(toLocaleLowerCase(endpointType), topic)

\* #ensureNoWhiteSpace: undefined, the empty string and a string of
\* whitespace only are returned as they are; otherwise every run of
\* whitespace is removed
ensureNoWhiteSpace(text) ==
    IF text = Undefined \/ text = <<>> \/ trim(text) = <<>> THEN text
    ELSE SelectSeq(text, LAMBDA c : c \notin MATCH_WHITESPACES)

\* linkEntity.getTargetEntity: class Link defines getTargetEndpoint and no
\* getter of this name, so the property access gives undefined
getTargetEntity(linkEntity) == Undefined

\* #createLinkNameKey: calling getNameId() on undefined throws a TypeError
createLinkNameKey(linkEntity) ==
    IF getTargetEntity(linkEntity) = Undefined THEN Thrown
    ELSE Value(linkEntity.sourceEntity.name \o
               <<"_", "c", "o", "n", "n", "e", "c", "t", "s", "-", "t", "o", "_">> \o
               getTargetEntity(linkEntity).nameId)

\* #createEndpointPathName: with an undefined type the optional chain gives
\* undefined, which is falsy
createEndpointPathName(endpointType, endpointName) ==
    IF endpointType # Undefined /\ includesTopic(endpointType)
    THEN interpolate(endpointName) \o <<" ">> \o interpolate(endpointType)
    ELSE interpolate(endpointType) \o <<" ">> \o interpolate(endpointName)

\* entity.getProperties().find(property => property.getKey === key).value:
\* when no property has the key, find gives undefined and .value throws
propertyValue(entity, key) ==
    IF \E i \in 1..Len(entity.properties) : entity.properties[i].key = key
    THEN Value(entity.properties[
             CHOOSE i \in 1..Len(entity.properties) :
                 /\ entity.properties[i].key = key
                 /\ \A j \in 1..(i - 1) : entity.properties[j].key # key].value)
    ELSE Thrown

\* Endpoint.getEndpointType: the value of the endpointType property
getEndpointType(entity) ==
    IF propertyValue(entity, "endpointType").thrown THEN Undefined
    ELSE propertyValue(entity, "endpointType").value

\* the callback of lines 167-182 and of lines 183-198: the descriptor of an
\* endpoint; portKey is the key line 179 or line 192 looks the port up with
endpointDescriptor(entity, portKey) ==
    LET endpointType == propertyValue(entity, "endpointType")
        endpointPath == propertyValue(entity, "endpointPath")
        endpointPort == propertyValue(entity, portKey)
    IN  IF endpointType.thrown \/ endpointPath.thrown \/ endpointPort.thrown
        THEN Thrown
        ELSE IF endpointType.value = Undefined
        THEN Thrown    \* undefined.toLowerCase()
        ELSE Value([metadata |-> entity.metadata,
                    protocol |-> IF includesTopic(endpointType.value)
                                 THEN "udp" ELSE "http",
                    port |-> endpointPort.value,
                    path |-> createEndpointPathName(endpointType.value,
                                                    endpointPath.value)])

\* the callback of lines 155-160
endpointLink(entity) ==
    IF getTargetEntity(entity) = Undefined THEN Thrown
    ELSE IF createLinkNameKey(entity).thrown THEN Thrown
    ELSE Value([targetEntity |->
                    ensureNoWhiteSpace(getTargetEntity(entity).parentName),
                linkName |->
                    ensureNoWhiteSpace(createLinkNameKey(entity).value)])

host_ == <<"_", "h", "o", "s", "t", "_">>

\* the class convertComponent instantiates for a component (lines 201-209)
templateClass(componentEntity) ==
    CASE componentEntity.kind = "Service" -> "SoftwareComponentService"
      [] componentEntity.kind = "BackingService" -> "ToscaBackingService"
      [] componentEntity.kind = "StorageBackingService" ->
             "DatabaseStorageBackingService"
      [] OTHER -> "RootComponent"

\* the body of the loop of convertComponent: the key and the template stored
\* for one component, or what the body threw
componentEntry(componentEntity) ==
    LET componentHost ==
            [infrastructure |-> componentEntity.hostedBy.name,
             deploymentMapping |->
                 componentEntity.hostedBy.name \o host_ \o componentEntity.name]
        endpointLinks ==
            mapped([i \in 1..Len(componentEntity.includedLinks) |->
                       endpointLink(componentEntity.includedLinks[i])])
        usesDataItems ==
            [i \in 1..Len(componentEntity.dataAggregates) |->
                ensureNoWhiteSpace(componentEntity.dataAggregates[i])]
        usesBackingDataItems ==
            [i \in 1..Len(componentEntity.backingData) |->
                ensureNoWhiteSpace(componentEntity.backingData[i])]
        endpoints ==
            mapped([i \in 1..Len(componentEntity.endpoints) |->
                       endpointDescriptor(componentEntity.endpoints[i],
                                          "endpointPort")])
        externalEndpoints ==
            mapped([i \in 1..Len(componentEntity.externalEndpoints) |->
                       endpointDescriptor(componentEntity.externalEndpoints[i],
                                          "endpointPath")])
        base ==
            [class |-> templateClass(componentEntity),
             id |-> IF templateClass(componentEntity) = "RootComponent"
                    THEN componentEntity.modelId ELSE componentEntity.id,
             componentHost |-> componentHost,
             endpointLinks |-> endpointLinks.value,
             usesDataItems |-> usesDataItems,
             usesBackingDataItems |-> usesBackingDataItems,
             endpoints |-> endpoints.value,
             externalEndpoints |-> externalEndpoints.value,
             persistedData |-> <<>>,
             position |-> componentEntity.position,
             size |-> componentEntity.size]
    IN  IF endpointLinks.thrown \/ endpoints.thrown \/ externalEndpoints.thrown
        THEN Thrown
        ELSE [thrown |-> FALSE,
              key |-> ensureNoWhiteSpace(componentEntity.name),
              value |->
                  IF templateClass(componentEntity) \in
                         {"ToscaBackingService", "DatabaseStorageBackingService"}
                  THEN [f \in DOMAIN base \cup {"properties"} |->
                           IF f = "properties" THEN componentEntity.properties
                           ELSE base[f]]
                  ELSE base]

\* the body of the loop of convertInfrastructure
infrastructureEntry(infrastructureEntity) ==
    [thrown |-> FALSE,
     key |-> ensureNoWhiteSpace(infrastructureEntity.name),
     value |->
         [class |-> IF infrastructureEntity.type = "DBMS"
                    THEN "DBMSInfrastructure" ELSE "ComputeInfrastructure",
          id |-> infrastructureEntity.modelId,
          hostedBy |-> ensureNoWhiteSpace(infrastructureEntity.hostedBy),
          usesBackingDataItems |->
              [i \in 1..Len(infrastructureEntity.backingData) |->
                  ensureNoWhiteSpace(infrastructureEntity.backingData[i])],
          position |-> infrastructureEntity.position,
          size |-> infrastructureEntity.size]]

\* the body of the loop of the class's convertDataAggregate
dataAggregateEntry(dataAggregateEntity) ==
    [thrown |-> FALSE,
     key |-> ensureNoWhiteSpace(dataAggregateEntity.name),
     value |->
         [class |-> "ToscaDataAggregate",
          id |-> dataAggregateEntity.modelId,
          persistedBy |->
              [i \in 1..Len(dataAggregateEntity.persistedBy) |->
                  ensureNoWhiteSpace(dataAggregateEntity.persistedBy[i])]]]

\* the body of the loop of the class's convertBackingData
backingDataEntry(backingDataEntity) ==
    [thrown |-> FALSE,
     key |-> ensureNoWhiteSpace(backingDataEntity.name),
     value |->
         [class |-> "ToscaBackingData",
          id |-> backingDataEntity.modelId,
          includedData |-> backingDataEntity.includedData]]

RT_ == <<"R", "T", "_">>

\* the body of the loop of convertRequestTrace
requestTraceEntry(requestTraceEntity) ==
    LET externalEndpoint == requestTraceEntity.externalEndpoint
        key == RT_ \o
               interpolate(ensureNoWhiteSpace(getEndpointType(externalEndpoint)))
               \o <<"_">> \o
               interpolate(ensureNoWhiteSpace(externalEndpoint.nameId))
        involvedLinks ==
            mapped([i \in 1..Len(requestTraceEntity.links) |->
                       createLinkNameKey(requestTraceEntity.links[i])])
        externalEndpointType == propertyValue(externalEndpoint, "endpointType")
        externalEndpointPath == propertyValue(externalEndpoint, "endpointPath")
    IN  IF \/ involvedLinks.thrown
           \/ externalEndpointType.thrown
           \/ externalEndpointPath.thrown
        THEN Thrown
        ELSE [thrown |-> FALSE,
              key |-> ensureNoWhiteSpace(key),
              value |->
                  [class |-> "ToscaRequestTrace",
                   id |-> requestTraceEntity.modelId,
                   externalEndpointParent |->
                       ensureNoWhiteSpace(externalEndpoint.parentName),
                   externalEndpoint |->
                       createEndpointPathName(externalEndpointType.value,
                                              externalEndpointPath.value),
                   involvedLinks |->
                       [i \in 1..Len(involvedLinks.value) |->
                           ensureNoWhiteSpace(involvedLinks.value[i])],
                   position |-> requestTraceEntity.position,
                   size |-> requestTraceEntity.size,
                   name |-> requestTraceEntity.name]]

\* the body of the loop of convertLink: the key is computed first, and
\* #createLinkNameKey throws
linkEntry(linkEntity) ==
    IF createLinkNameKey(linkEntity).thrown THEN Thrown
    ELSE LET target == getTargetEntity(linkEntity)
             targetEndpointName ==
                 IF getEndpointType(target) # Undefined
                    /\ includesTopic(getEndpointType(target))
                 THEN interpolate(target.endpointName) \o <<" ">> \o
                      interpolate(getEndpointType(target))
                 ELSE interpolate(getEndpointType(target)) \o <<" ">> \o
                      interpolate(target.endpointName)
         IN  [thrown |-> FALSE,
              key |-> ensureNoWhiteSpace(createLinkNameKey(linkEntity).value),
              value |-> [class |-> "ConnectsToLink",
                         id |-> linkEntity.modelId,
                         targetEndpointName |-> targetEndpointName,
                         relationType |-> linkEntity.relationType]]

\* the body of the loop of convertDeploymentMapping
deploymentMappingEntry(deploymentMappingEntity) ==
    [thrown |-> FALSE,
     key |-> ensureNoWhiteSpace(
                 deploymentMappingEntity.underlyingInfrastructure.name \o host_ \o
                 deploymentMappingEntity.deployedEntity.name),
     value |-> [class |-> "HostedOn", id |-> deploymentMappingEntity.modelId]]

\* a loop that stores one template per entity under its key, an equal key
\* overwriting, until a body throws
RECURSIVE storeEntries(_, _)
storeEntries(entries, templates) ==
    IF entries = <<>> THEN [thrown |-> FALSE, templates |-> templates]
    ELSE IF Head(entries).thrown THEN [thrown |-> TRUE, templates |-> templates]
    ELSE storeEntries(Tail(entries),
                      put(templates, Head(entries).key, Head(entries).value))

--------------------------------------------------------------------------
(* ToscaConverter: the Systems it is given *)

\* the number of components of a System whose components carry no endpoints
MaxComponents == 2

ComponentNames == {worker, work_er, Orders}
ComponentKinds == {"Service", "BackingService", "StorageBackingService", "Component"}

\* a property an entity does not have
Missing == <<"missing">>

property(key, value) ==
    IF value = Missing THEN <<>> ELSE <<[key |-> key, value |-> value]>>

\* the type, path and port of an endpoint: with a topic or another type in
\* several letter cases, and with one of the three undefined or absent
EndpointShapes ==
    { <<type, ordersPath, port80>> : type \in {REST, Topic, myTOPICs} }
    \cup { <<type, ordersPath, port80>> : type \in {Undefined, Missing} }
    \cup { <<REST, path, port80>> : path \in {Undefined, Missing} }
    \cup { <<REST, ordersPath, port>> : port \in {Undefined, Missing} }

endpointEntity(id, parentName, shape) ==
    [id |-> id, nameId |-> <<id>>, parentName |-> parentName,
     metadata |-> <<"metadata", id>>,
     properties |-> property("endpointType", shape[1])
                    \o property("endpointPath", shape[2])
                    \o property("endpointPort", shape[3])]

infrastructureEntity(type) ==
    [modelId |-> <<"i", 1>>, name |-> node1, type |-> type, hostedBy |-> Undefined,
     backingData |-> <<worker>>,
     position |-> <<"position", "i1">>, size |-> <<"size", "i1">>]

componentEntity(i, name, kind, infrastructure, includedLinks, endpoints, externals) ==
    [id |-> <<"c", i>>, modelId |-> <<"m", i>>, name |-> name, kind |-> kind,
     hostedBy |-> infrastructure,
     includedLinks |-> includedLinks,
     dataAggregates |-> <<OrderData>>, backingData |-> <<>>,
     endpoints |-> endpoints, externalEndpoints |-> externals,
     properties |-> <<[key |-> "replicas", value |-> <<"1">>]>>,
     position |-> <<"position", i>>, size |-> <<"size", i>>]

\* a Link as class Link holds it: id, source entity, target endpoint and
\* relation type
linkEntity(sourceEntity, targetEndpoint) ==
    [id |-> <<"l", 1>>, modelId |-> <<"l", 1>>,
     sourceEntity |-> [id |-> sourceEntity.id, name |-> sourceEntity.name],
     targetEndpoint |-> targetEndpoint, relationType |-> "routes to"]

\* what a System holds beside its components, links and request traces:
\* only its infrastructure, or also a data aggregate, a backing data entity
\* and a deployment mapping per component
InfrastructureTypes == {"compute", "DBMS"}

systemOf(componentEntities, linkEntities, requestTraceEntities, infrastructure) ==
    [name |-> <<"S", "h", "o", "p">>,
     components |-> componentEntities,
     infrastructures |-> <<infrastructure>>,
     dataAggregates |->
         IF infrastructure.type = "DBMS"
         THEN <<[modelId |-> <<"d", 1>>, name |-> OrderData, persistedBy |-> <<node1>>]>>
         ELSE <<>>,
     backingData |->
         IF infrastructure.type = "DBMS"
         THEN <<[modelId |-> <<"b", 1>>, name |-> worker,
                 includedData |-> <<[key |-> "k", value |-> "v"]>>]>>
         ELSE <<>>,
     requestTraces |-> requestTraceEntities,
     links |-> linkEntities,
     deploymentMappings |->
         IF infrastructure.type = "DBMS"
         THEN [i \in 1..Len(componentEntities) |->
                  [modelId |-> <<"h", i>>,
                   underlyingInfrastructure |-> infrastructure,
                   deployedEntity |-> componentEntities[i]]]
         ELSE <<>>]

\* Systems of up to MaxComponents components without endpoints, whose names
\* may be equal, or equal once the whitespace is removed
ComponentSystems ==
    { systemOf([i \in 1..n |->
                   componentEntity(i, names[i], kinds[i],
                                   infrastructureEntity(type), <<>>, <<>>, <<>>)],
               <<>>, <<>>, infrastructureEntity(type)) :
        <<n, names, kinds, type>> \in
            UNION { {n} \X [1..n -> ComponentNames] \X [1..n -> ComponentKinds]
                        \X InfrastructureTypes :
                    n \in 0..MaxComponents } }

\* how the one Link of a System is reachable: not at all (no Link), from the
\* System only, from its source component too, or from the request trace too
LinkPlacements == {"none", "system", "component", "trace"}

\* Systems of the Service "Gateway" and the Service "Orders"; Orders may own
\* an endpoint and an external endpoint, Gateway may have a Link to the
\* endpoint, and a request trace may start at the external endpoint
EndpointSystems ==
    { LET infrastructure == infrastructureEntity(type)
          endpoints ==
              IF shape = Missing THEN <<>>
              ELSE <<endpointEntity("e1", Orders, shape)>>
          externalEndpoints ==
              IF externalShape = Missing THEN <<>>
              ELSE <<endpointEntity("x1", Orders, externalShape)>>
          orders == componentEntity(2, Orders, "Service", infrastructure, <<>>,
                                    endpoints, externalEndpoints)
          links ==
              IF placement = "none" THEN <<>>
              ELSE <<linkEntity([id |-> <<"c", 1>>, name |-> Gateway],
                                endpoints[1])>>
          gateway == componentEntity(1, Gateway, "Service", infrastructure,
                                     IF placement = "component" THEN links
                                     ELSE <<>>,
                                     <<>>, <<>>)
          requestTraces ==
              IF ~trace THEN <<>>
              ELSE <<[modelId |-> <<"t", 1>>, name |-> <<"t", "r", "a", "c", "e">>,
                      externalEndpoint |-> externalEndpoints[1],
                      links |-> IF placement = "trace" THEN links ELSE <<>>,
                      position |-> <<"position", "t1">>,
                      size |-> <<"size", "t1">>]>>
      IN  systemOf(<<gateway, orders>>, links, requestTraces, infrastructure) :
        <<shape, externalShape, placement, trace, type>> \in
            { x \in (EndpointShapes \cup {Missing})
                    \X (EndpointShapes \cup {Missing})
                    \X LinkPlacements \X BOOLEAN \X InfrastructureTypes :
                /\ x[3] # "none" => x[1] # Missing
                /\ x[4] => x[2] # Missing
                /\ x[3] = "trace" => x[4] } }

--------------------------------------------------------------------------
(* ToscaConverter.convert *)

\* new ToscaConverter(systemEntity), and convert() called
InitConverter ==
    /\ systemEntity \in ComponentSystems \cup EndpointSystems
    /\ toscaConverter = [pc |-> "convertComponent", completed |-> <<>>,
                         nodeTemplates |-> <<>>, relationshipTemplates |-> <<>>,
                         thrown |-> "none", download |-> NoDownload]
    /\ SanIdle /\ ExportIdle /\ LinkIdle /\ DMIdle
    /\ ConcurrentIdle /\ RelationIdle

\* a mutant: convert() goes on with the next step after a step has thrown
Step_ContinueAfterThrow(step, next, nodes, relationships, thrown) ==
    /\ toscaConverter.pc = step
    /\ toscaConverter' =
           [toscaConverter EXCEPT
               !.nodeTemplates = nodes,
               !.relationshipTemplates = relationships,
               !.thrown = IF thrown THEN "TypeError" ELSE @,
               !.completed = IF thrown THEN @ ELSE Append(@, step),
               !.pc = next]
    /\ UNCHANGED <<systemEntity, sanVars, exportVars, linkVars, dmVars,
                   concurrentVars, relationVars>>

\* one statement of convert(): the call of a conversion step, which either
\* returns, and convert() goes on with the next statement, or throws, and
\* the exception leaves convert()
Step(step, next, nodes, relationships, thrown) ==
    /\ toscaConverter.pc = step
    /\ toscaConverter' =
           [toscaConverter EXCEPT
               !.nodeTemplates = nodes,
               !.relationshipTemplates = relationships,
               !.thrown = IF thrown THEN "TypeError" ELSE @,
               !.completed = IF thrown THEN @ ELSE Append(@, step),
               !.pc = IF thrown THEN "failed" ELSE next]
    /\ UNCHANGED <<systemEntity, sanVars, exportVars, linkVars, dmVars,
                   concurrentVars, relationVars>>

convertComponent ==
    /\ toscaConverter.pc = "convertComponent"
    /\ LET stored == storeEntries([i \in 1..Len(systemEntity.components) |->
                                     componentEntry(systemEntity.components[i])],
                                  toscaConverter.nodeTemplates)
       IN  Step("convertComponent", "convertInfrastructure", stored.templates,
                toscaConverter.relationshipTemplates, stored.thrown)

convertInfrastructure ==
    /\ toscaConverter.pc = "convertInfrastructure"
    /\ LET stored == storeEntries([i \in 1..Len(systemEntity.infrastructures) |->
                                     infrastructureEntry(systemEntity.infrastructures[i])],
                                  toscaConverter.nodeTemplates)
       IN  Step("convertInfrastructure", "convertDataAggregate", stored.templates,
                toscaConverter.relationshipTemplates, stored.thrown)

convertDataAggregate ==
    /\ toscaConverter.pc = "convertDataAggregate"
    /\ LET stored == storeEntries([i \in 1..Len(systemEntity.dataAggregates) |->
                                     dataAggregateEntry(systemEntity.dataAggregates[i])],
                                  toscaConverter.nodeTemplates)
       IN  Step("convertDataAggregate", "convertBackingData", stored.templates,
                toscaConverter.relationshipTemplates, stored.thrown)

convertBackingData ==
    /\ toscaConverter.pc = "convertBackingData"
    /\ LET stored == storeEntries([i \in 1..Len(systemEntity.backingData) |->
                                     backingDataEntry(systemEntity.backingData[i])],
                                  toscaConverter.nodeTemplates)
       IN  Step("convertBackingData", "convertRequestTrace", stored.templates,
                toscaConverter.relationshipTemplates, stored.thrown)

convertRequestTrace ==
    /\ toscaConverter.pc = "convertRequestTrace"
    /\ LET stored == storeEntries([i \in 1..Len(systemEntity.requestTraces) |->
                                     requestTraceEntry(systemEntity.requestTraces[i])],
                                  toscaConverter.nodeTemplates)
       IN  Step("convertRequestTrace", "convertLink", stored.templates,
                toscaConverter.relationshipTemplates, stored.thrown)

convertLink ==
    /\ toscaConverter.pc = "convertLink"
    /\ LET stored == storeEntries([i \in 1..Len(systemEntity.links) |->
                                     linkEntry(systemEntity.links[i])],
                                  toscaConverter.relationshipTemplates)
       IN  Step("convertLink", "convertDeploymentMapping",
                toscaConverter.nodeTemplates, stored.templates, stored.thrown)

convertDeploymentMapping ==
    /\ toscaConverter.pc = "convertDeploymentMapping"
    /\ LET stored == storeEntries([i \in 1..Len(systemEntity.deploymentMappings) |->
                                     deploymentMappingEntry(systemEntity.deploymentMappings[i])],
                                  toscaConverter.relationshipTemplates)
       IN  Step("convertDeploymentMapping", "download",
                toscaConverter.nodeTemplates, stored.templates, stored.thrown)

\* yaml.dump(serviceTemplate, ...): the text of the document, kept as the
\* document under the mark of its encoding
yamlDump(document) == <<"yaml", document>>

\* lines 135-147: the service template is assembled, encoded and handed to
\* the download element, which is clicked
Download ==
    /\ toscaConverter.pc = "download"
    /\ toscaConverter' =
           [toscaConverter EXCEPT
               !.pc = "done",
               !.download =
                   [exists |-> TRUE,
                    href |-> yamlDump(
                        [class |-> "ToscaServiceTemplate",
                         name |-> systemEntity.name,
                         nodeTemplates |-> toscaConverter.nodeTemplates,
                         relationshipTemplates |->
                             toscaConverter.relationshipTemplates]),
                    download |-> interpolate(systemEntity.name)
                                 \o <<".", "t", "o", "s", "c", "a">>]]
    /\ UNCHANGED <<systemEntity, sanVars, exportVars, linkVars, dmVars,
                   concurrentVars, relationVars>>

NextConverter ==
    \/ convertComponent
    \/ convertInfrastructure
    \/ convertDataAggregate
    \/ convertBackingData
    \/ convertRequestTrace
    \/ convertLink
    \/ convertDeploymentMapping
    \/ Download

SpecConverter == InitConverter /\ [][NextConverter]_vars

SevenSteps ==
    <<"convertComponent", "convertInfrastructure", "convertDataAggregate",
      "convertBackingData", "convertRequestTrace", "convertLink",
      "convertDeploymentMapping">>

TOPIC == <<"T", "O", "P", "I", "C">>

\* the type contains "topic", each letter in either case
containsTopicAnyCase(type) ==
    \E i \in 1..(Len(type) - 4) :
        \A k \in 1..5 : type[i + k - 1] \in {topic[k], TOPIC[k]}

\* the entity has the property and the property has a value
hasValue(entity, key) ==
    \E i \in 1..Len(entity.properties) :
        /\ entity.properties[i].key = key
        /\ entity.properties[i].value # Undefined

valueOf(entity, key) ==
    entity.properties[CHOOSE i \in 1..Len(entity.properties) :
                          entity.properties[i].key = key].value

hasTypeAndPath(entity) ==
    hasValue(entity, "endpointType") /\ hasValue(entity, "endpointPath")

expectedProtocol(entity) ==
    IF containsTopicAnyCase(valueOf(entity, "endpointType"))
    THEN "udp" ELSE "http"

expectedDescriptor(entity) ==
    IF containsTopicAnyCase(valueOf(entity, "endpointType"))
    THEN valueOf(entity, "endpointPath") \o <<" ">> \o valueOf(entity, "endpointType")
    ELSE valueOf(entity, "endpointType") \o <<" ">> \o valueOf(entity, "endpointPath")

\* the descriptors follow the rule for the endpoints they were made from
descriptorsAsExpected(descriptors, endpointEntities) ==
    /\ Len(descriptors) = Len(endpointEntities)
    /\ \A j \in 1..Len(endpointEntities) :
           hasTypeAndPath(endpointEntities[j]) =>
               /\ descriptors[j].protocol = expectedProtocol(endpointEntities[j])
               /\ descriptors[j].path = expectedDescriptor(endpointEntities[j])

ComponentClasses ==
    {"SoftwareComponentService", "ToscaBackingService",
     "DatabaseStorageBackingService", "RootComponent"}

\* C11: every endpoint descriptor in a template made by the converter, of a
\* component's endpoint or external endpoint, of a request trace or of a link
\* target, follows the rule: a type containing "topic" in any letter case
\* gives protocol udp and the descriptor "<path> <type>", any other type
\* gives protocol http and the descriptor "<type> <path>".
C11_DescriptorRule ==
    /\ \A key \in DOMAIN toscaConverter.nodeTemplates :
           LET template == toscaConverter.nodeTemplates[key]
           IN  /\ template.class \in ComponentClasses =>
                      \A i \in 1..Len(systemEntity.components) :
                          LET c == systemEntity.components[i]
                          IN  template.id \in {c.id, c.modelId} =>
                                  /\ descriptorsAsExpected(template.endpoints,
                                                           c.endpoints)
                                  /\ descriptorsAsExpected(
                                         template.externalEndpoints,
                                         c.externalEndpoints)
               /\ template.class = "ToscaRequestTrace" =>
                      \A i \in 1..Len(systemEntity.requestTraces) :
                          LET trace == systemEntity.requestTraces[i]
                          IN  /\ template.id = trace.modelId
                              /\ hasTypeAndPath(trace.externalEndpoint)
                              => template.externalEndpoint =
                                     expectedDescriptor(trace.externalEndpoint)
    /\ \A key \in DOMAIN toscaConverter.relationshipTemplates :
           LET template == toscaConverter.relationshipTemplates[key]
           IN  template.class = "ConnectsToLink" =>
                   \A i \in 1..Len(systemEntity.links) :
                       LET l == systemEntity.links[i]
                       IN  /\ template.id = l.modelId
                           /\ hasTypeAndPath(l.targetEndpoint)
                           => template.targetEndpointName =
                                  expectedDescriptor(l.targetEndpoint)

\* C11 witness: the document was handed to the download with the template of
\* Orders, whose endpoint of type "myTOPICs" got udp and "/orders myTOPICs"
\* and whose external endpoint of type "REST" got http and "REST /orders", and
\* with the template of the request trace that starts at the external endpoint
C11_Witness ==
    /\ toscaConverter.download.exists
    /\ Orders \in DOMAIN toscaConverter.nodeTemplates
    /\ LET template == toscaConverter.nodeTemplates[Orders]
       IN  /\ template.class = "SoftwareComponentService"
           /\ Len(template.endpoints) = 1
           /\ template.endpoints[1].protocol = "udp"
           /\ template.endpoints[1].path = ordersPath \o <<" ">> \o myTOPICs
           /\ Len(template.externalEndpoints) = 1
           /\ template.externalEndpoints[1].protocol = "http"
           /\ template.externalEndpoints[1].path = REST \o <<" ">> \o ordersPath
    /\ \E key \in DOMAIN toscaConverter.nodeTemplates :
           /\ toscaConverter.nodeTemplates[key].class = "ToscaRequestTrace"
           /\ toscaConverter.nodeTemplates[key].externalEndpoint =
                  REST \o <<" ">> \o ordersPath

\* the entity lacks a value for its type, its path or its port
lacksValue(entity) ==
    \E key \in {"endpointType", "endpointPath", "endpointPort"} :
        ~hasValue(entity, key)

\* C12: when an endpoint or external endpoint of a component, or the external
\* endpoint of a request trace, lacks a value for its type, path or port, the
\* export fails: no document is handed to the download.
C12_MissingValueFails ==
    (\/ \E i \in 1..Len(systemEntity.components) :
            LET c == systemEntity.components[i]
            IN  \/ \E j \in 1..Len(c.endpoints) : lacksValue(c.endpoints[j])
                \/ \E j \in 1..Len(c.externalEndpoints) :
                       lacksValue(c.externalEndpoints[j])
     \/ \E i \in 1..Len(systemEntity.requestTraces) :
            lacksValue(systemEntity.requestTraces[i].externalEndpoint))
    => ~toscaConverter.download.exists

\* C13: once convertComponent has returned, two components of the same name
\* have their templates under two distinct keys of the node-template mapping.
C13_SameNameDistinctKeys ==
    Len(toscaConverter.completed) >= 1 =>
        \A i, j \in 1..Len(systemEntity.components) :
            LET ci == systemEntity.components[i]
                cj == systemEntity.components[j]
            IN  (i < j /\ ci.name = cj.name) =>
                    \E ki, kj \in DOMAIN toscaConverter.nodeTemplates :
                        /\ ki # kj
                        /\ toscaConverter.nodeTemplates[ki].id \in
                               {ci.id, ci.modelId}
                        /\ toscaConverter.nodeTemplates[kj].id \in
                               {cj.id, cj.modelId}

gateway_connects_to_ ==
    <<"g", "a", "t", "e", "w", "a", "y", "_",
      "c", "o", "n", "n", "e", "c", "t", "s", "-", "t", "o", "_">>

\* C15: when convert() has ended for a System with a Link from "Gateway" to an
\* endpoint of "Orders" of type "REST" and path "/orders", the relationship
\* templates hold an entry keyed gateway_connects-to_<nameId of the endpoint>
\* whose target descriptor is "REST /orders".
C15_GatewayOrdersLink ==
    toscaConverter.pc \in {"done", "failed"} =>
        \A i \in 1..Len(systemEntity.links) :
            LET l == systemEntity.links[i]
            IN  (/\ l.sourceEntity.name = Gateway
                 /\ l.targetEndpoint.parentName = Orders
                 /\ hasTypeAndPath(l.targetEndpoint)
                 /\ valueOf(l.targetEndpoint, "endpointType") = REST
                 /\ valueOf(l.targetEndpoint, "endpointPath") = ordersPath)
                =>
                (/\ (gateway_connects_to_ \o l.targetEndpoint.nameId) \in
                        DOMAIN toscaConverter.relationshipTemplates
                 /\ toscaConverter.relationshipTemplates[
                        gateway_connects_to_ \o l.targetEndpoint.nameId
                    ].targetEndpointName = REST \o <<" ">> \o ordersPath)

\* C20: a document is handed to the download only when all seven conversion
\* steps have returned, in their order, and none has thrown; when a step has
\* thrown, no document is handed to the download.
C20_DownloadAfterSevenSteps ==
    /\ toscaConverter.download.exists =>
           /\ toscaConverter.completed = SevenSteps
           /\ toscaConverter.thrown = "none"
    /\ toscaConverter.thrown # "none" =>
           /\ ~toscaConverter.download.exists
           /\ toscaConverter.pc = "failed"

\* C20 witness: a step threw after earlier steps had stored their templates,
\* and nothing was handed to the download
C20_Witness ==
    /\ toscaConverter.thrown = "TypeError"
    /\ Len(toscaConverter.completed) >= 5
    /\ toscaConverter.nodeTemplates # <<>>
    /\ ~toscaConverter.download.exists

\* the template class the claim gives a component's variant
classOfVariant(kind) ==
    CASE kind = "Service" -> "SoftwareComponentService"
      [] kind = "BackingService" -> "ToscaBackingService"
      [] kind = "StorageBackingService" -> "DatabaseStorageBackingService"
      [] OTHER -> "RootComponent"

\* C24: once convertComponent has returned, every component has exactly one
\* node template, of the class its variant determines, and the template
\* carries the component's property set exactly when the component is a
\* StorageBackingService.
C24_TemplatePerVariant ==
    Len(toscaConverter.completed) >= 1 =>
        \A i \in 1..Len(systemEntity.components) :
            LET c == systemEntity.components[i]
                keys == {k \in DOMAIN toscaConverter.nodeTemplates :
                            toscaConverter.nodeTemplates[k].id \in {c.id, c.modelId}}
            IN  /\ Cardinality(keys) = 1
                /\ \A k \in keys :
                       LET template == toscaConverter.nodeTemplates[k]
                       IN  /\ template.class = classOfVariant(c.kind)
                           /\ ("properties" \in DOMAIN template)
                                  <=> (c.kind = "StorageBackingService")

\* C25: in a component's node template the port of every external endpoint
\* descriptor is the value of the external endpoint's endpointPort property.
C25_ExternalPortIsPortProperty ==
    \A key \in DOMAIN toscaConverter.nodeTemplates :
        LET template == toscaConverter.nodeTemplates[key]
        IN  template.class \in ComponentClasses =>
                \A i \in 1..Len(systemEntity.components) :
                    LET c == systemEntity.components[i]
                    IN  template.id \in {c.id, c.modelId} =>
                            \A j \in 1..Len(c.externalEndpoints) :
                                hasValue(c.externalEndpoints[j], "endpointPort") =>
                                    template.externalEndpoints[j].port =
                                        valueOf(c.externalEndpoints[j],
                                                "endpointPort")

\* every component of the System has its deployment mapping
EveryComponentMapped ==
    \A i \in 1..Len(systemEntity.components) :
        \E j \in 1..Len(systemEntity.deploymentMappings) :
            LET dm == systemEntity.deploymentMappings[j]
            IN  /\ dm.deployedEntity.id = systemEntity.components[i].id
                /\ dm.underlyingInfrastructure.name =
                       systemEntity.components[i].hostedBy.name

\* C26: when all conversion steps have returned for a System in which every
\* component has its deployment mapping, every relationship key a node
\* template refers to (the deploymentMapping key of a component's host, the
\* linkName of each endpoint link, each involved link of a request trace) is
\* a key of the relationship templates.
C26_ReferencedKeysExist ==
    (Len(toscaConverter.completed) = 7 /\ EveryComponentMapped) =>
        \A key \in DOMAIN toscaConverter.nodeTemplates :
            LET template == toscaConverter.nodeTemplates[key]
                relationshipKeys == DOMAIN toscaConverter.relationshipTemplates
            IN  /\ template.class \in ComponentClasses =>
                       /\ template.componentHost.deploymentMapping
                              \in relationshipKeys
                       /\ \A j \in 1..Len(template.endpointLinks) :
                              template.endpointLinks[j].linkName
                                  \in relationshipKeys
                /\ template.class = "ToscaRequestTrace" =>
                       \A j \in 1..Len(template.involvedLinks) :
                           template.involvedLinks[j] \in relationshipKeys

--------------------------------------------------------------------------
(* the two exporters together *)

InitExporters == InitExport \/ InitConverter

NextExporters == NextExport \/ NextConverter

SpecExporters == InitExporters /\ [][NextExporters]_vars

\* C17: no step of convertToServiceTemplate and no step of
\* ToscaConverter.convert changes the System it was given: every entity,
\* name, property, endpoint, link and collection of the input stays as it was.
C17_InputUnchanged ==
    [][system' = system /\ systemEntity' = systemEntity]_vars

\* C17 witness: convert() ran to its end on a System with components, data
\* aggregates, backing data and deployment mappings
C17_Witness ==
    /\ toscaConverter.pc = "done"
    /\ Len(systemEntity.components) >= 1
    /\ Len(systemEntity.dataAggregates) >= 1
    /\ Len(systemEntity.deploymentMappings) >= 1

--------------------------------------------------------------------------
(* Link *)

ComponentIds == {"c1", "c2"}

\* ids of Endpoint objects and of ExternalEndpoint objects
PlainEndpointIds == {"e1", "e2"}
ExternalEndpointIds == {"x1", "x2"}
EndpointIds == PlainEndpointIds \cup ExternalEndpointIds

RelationTypes == {"subscribes to", "routes to"}

\* Component.getEndpointEntities, Component.getExternalEndpointEntities
getEndpointEntities(c) == components[c].endpointEntities
getExternalEndpointEntities(c) == components[c].externalEndpointEntities

\* every endpoint and external endpoint is owned by exactly one component
InitLink ==
    /\ \E owner \in [EndpointIds -> ComponentIds] :
          components =
              [c \in ComponentIds |->
                  [endpointEntities |->
                       {e \in PlainEndpointIds : owner[e] = c},
                   externalEndpointEntities |->
                       {e \in ExternalEndpointIds : owner[e] = c}]]
    /\ link = NoLink
    /\ linkCall = NoCall
    /\ SanIdle /\ ExportIdle /\ ConverterIdle /\ DMIdle
    /\ ConcurrentIdle /\ RelationIdle

\* sourceEntity.getEndpointEntities.find(endpoint => endpoint.getId === target.getId)
findEndpoint(c, targetEndpoint) == targetEndpoint \in getEndpointEntities(c)

\* new Link(id, sourceEntity, targetEndpoint)
NewLink(id, sourceEntity, targetEndpoint) ==
    /\ link = NoLink
    /\ IF findEndpoint(sourceEntity, targetEndpoint)
       THEN /\ link' = NoLink
            /\ linkCall' = [op |-> "constructor", sourceEntity |-> sourceEntity,
                            targetEndpoint |-> targetEndpoint, outcome |-> "Error"]
       ELSE /\ link' = [exists |-> TRUE, id |-> id, sourceEntity |-> sourceEntity,
                        targetEndpoint |-> targetEndpoint,
                        relationType |-> "undefined"]
            /\ linkCall' = [op |-> "constructor", sourceEntity |-> sourceEntity,
                            targetEndpoint |-> targetEndpoint, outcome |-> "ok"]
    /\ UNCHANGED <<components, sanVars, exportVars, converterVars, dmVars,
                   concurrentVars, relationVars>>

AddRelationType(relationType) ==
    /\ link.exists
    /\ link' = [link EXCEPT !.relationType = relationType]
    /\ linkCall' = [op |-> "addRelationType", sourceEntity |-> link.sourceEntity,
                    targetEndpoint |-> link.targetEndpoint, outcome |-> "ok"]
    /\ UNCHANGED <<components, sanVars, exportVars, converterVars, dmVars,
                   concurrentVars, relationVars>>

\* a mutant: the endpoints of the current source are searched, not those of
\* the new one
SetSourceEntity_SearchOldSource(newSourceEntity) ==
    /\ link.exists
    /\ IF findEndpoint(link.sourceEntity, link.targetEndpoint)
       THEN /\ link' = link
            /\ linkCall' = [op |-> "setSourceEntity", sourceEntity |-> newSourceEntity,
                            targetEndpoint |-> link.targetEndpoint, outcome |-> "Error"]
       ELSE /\ link' = [link EXCEPT !.sourceEntity = newSourceEntity]
            /\ linkCall' = [op |-> "setSourceEntity", sourceEntity |-> newSourceEntity,
                            targetEndpoint |-> link.targetEndpoint, outcome |-> "ok"]
    /\ UNCHANGED <<components, sanVars, exportVars, converterVars, dmVars,
                   concurrentVars, relationVars>>

\* set setSourceEntity(newSourceEntity)
SetSourceEntity(newSourceEntity) ==
    /\ link.exists
    /\ IF findEndpoint(newSourceEntity, link.targetEndpoint)
       THEN /\ link' = link
            /\ linkCall' = [op |-> "setSourceEntity", sourceEntity |-> newSourceEntity,
                            targetEndpoint |-> link.targetEndpoint, outcome |-> "Error"]
       ELSE /\ link' = [link EXCEPT !.sourceEntity = newSourceEntity]
            /\ linkCall' = [op |-> "setSourceEntity", sourceEntity |-> newSourceEntity,
                            targetEndpoint |-> link.targetEndpoint, outcome |-> "ok"]
    /\ UNCHANGED <<components, sanVars, exportVars, converterVars, dmVars,
                   concurrentVars, relationVars>>

\* a mutant: the field is assigned before the check, as in the constructor
SetTargetEndpoint_AssignFirst(newTargetEndpoint) ==
    /\ link.exists
    /\ link' = [link EXCEPT !.targetEndpoint = newTargetEndpoint]
    /\ linkCall' = [op |-> "setTargetEndpoint", sourceEntity |-> link.sourceEntity,
                    targetEndpoint |-> newTargetEndpoint,
                    outcome |-> IF findEndpoint(link.sourceEntity, newTargetEndpoint)
                                THEN "Error" ELSE "ok"]
    /\ UNCHANGED <<components, sanVars, exportVars, converterVars, dmVars,
                   concurrentVars, relationVars>>

\* set setTargetEndpoint(newTargetEndpoint)
SetTargetEndpoint(newTargetEndpoint) ==
    /\ link.exists
    /\ IF findEndpoint(link.sourceEntity, newTargetEndpoint)
       THEN /\ link' = link
            /\ linkCall' = [op |-> "setTargetEndpoint", sourceEntity |-> link.sourceEntity,
                            targetEndpoint |-> newTargetEndpoint, outcome |-> "Error"]
       ELSE /\ link' = [link EXCEPT !.targetEndpoint = newTargetEndpoint]
            /\ linkCall' = [op |-> "setTargetEndpoint", sourceEntity |-> link.sourceEntity,
                            targetEndpoint |-> newTargetEndpoint, outcome |-> "ok"]
    /\ UNCHANGED <<components, sanVars, exportVars, converterVars, dmVars,
                   concurrentVars, relationVars>>

NextLink ==
    \/ \E c \in ComponentIds, e \in EndpointIds : NewLink("l1", c, e)
    \/ \E r \in RelationTypes : AddRelationType(r)
    \/ \E c \in ComponentIds : SetSourceEntity(c)
    \/ \E e \in EndpointIds : SetTargetEndpoint(e)

SpecLink == InitLink /\ [][NextLink]_vars

\* the endpoint, plain or external, belongs to the component
BelongsTo(endpoint, c) ==
    endpoint \in getEndpointEntities(c) \cup getExternalEndpointEntities(c)

\* C5: constructing a Link whose target endpoint belongs to its source entity,
\* as one of its endpoints or of its external endpoints, fails with an error
\* and no Link results.
C5_OwnEndpointRejected ==
    (linkCall.op = "constructor"
        /\ BelongsTo(linkCall.targetEndpoint, linkCall.sourceEntity))
    => (linkCall.outcome = "Error" /\ link = NoLink)

C27_ThrowingSetterChangesNothing ==
    [][(/\ linkCall'.op \in {"setSourceEntity", "setTargetEndpoint"}
        /\ linkCall'.outcome = "Error")
       => (/\ link'.exists
           /\ link'.id = link.id
           /\ link'.sourceEntity = link.sourceEntity
           /\ link'.targetEndpoint = link.targetEndpoint
           /\ link'.relationType = link.relationType)]_vars

\* C27 witness: setTargetEndpoint has thrown on a Link whose relation type had
\* been set, and setSourceEntity would throw for the other component's endpoint
C27_Witness ==
    /\ link.exists
    /\ linkCall.op = "setTargetEndpoint"
    /\ linkCall.outcome = "Error"
    /\ linkCall.targetEndpoint \in getEndpointEntities(link.sourceEntity)
    /\ link.relationType \in RelationTypes

--------------------------------------------------------------------------
(* DeploymentMapping *)

EntityIds == {"n1", "n2"}

\* the classes of the objects handed to a DeploymentMapping; Service extends
\* Component, a DataAggregate is neither a Component nor an Infrastructure
EntityKinds == {"Component", "Service", "Infrastructure", "DataAggregate"}

\* what JSON.stringify shows of an entity: its public fields. The id is
\* private (read through getId) and is not part of it.
PublicFields == {"p", "q"}

Entities == [id : EntityIds, kind : EntityKinds, publicFields : PublicFields]

NoEntity == [id |-> "none", kind |-> "none", publicFields |-> "none"]

\* entity instanceof Component, entity instanceof Infrastructure
instanceofComponent(e) == e.kind \in {"Component", "Service"}
instanceofInfrastructure(e) == e.kind = "Infrastructure"

JSONstringify(e) == e.publicFields

InitDeployment ==
    /\ mapping = NoMapping
    /\ dmCall = NoCall
    /\ SanIdle /\ ExportIdle /\ ConverterIdle /\ LinkIdle
    /\ ConcurrentIdle /\ RelationIdle

called(op, deployedEntity, underlyingInfrastructure, outcome) ==
    [op |-> op, deployedEntity |-> deployedEntity,
     underlyingInfrastructure |-> underlyingInfrastructure, outcome |-> outcome]

\* a mutant: the constructor compares the serializations, as the setters do
NewDeploymentMapping_CompareJSON(id, deployedEntity, underlyingInfrastructure) ==
    /\ mapping = NoMapping
    /\ LET outcome ==
              IF JSONstringify(deployedEntity) = JSONstringify(underlyingInfrastructure)
              THEN "Error"
              ELSE IF ~(instanceofComponent(deployedEntity)
                        \/ instanceofInfrastructure(deployedEntity))
              THEN "TypeError"
              ELSE IF ~instanceofInfrastructure(underlyingInfrastructure)
              THEN "TypeError"
              ELSE "ok"
       IN  /\ dmCall' = called("constructor", deployedEntity,
                               underlyingInfrastructure, outcome)
           /\ mapping' =
                 IF outcome = "ok"
                 THEN [exists |-> TRUE, id |-> id, deployedEntity |-> deployedEntity,
                       underlyingInfrastructure |-> underlyingInfrastructure]
                 ELSE NoMapping
    /\ UNCHANGED <<sanVars, exportVars, converterVars, linkVars,
                   concurrentVars, relationVars>>

\* new DeploymentMapping(id, deployedEntity, underlyingInfrastructure)
NewDeploymentMapping(id, deployedEntity, underlyingInfrastructure) ==
    /\ mapping = NoMapping
    /\ LET outcome ==
              IF deployedEntity.id = underlyingInfrastructure.id
              THEN "Error"
              ELSE IF ~(instanceofComponent(deployedEntity)
                        \/ instanceofInfrastructure(deployedEntity))
              THEN "TypeError"
              ELSE IF ~instanceofInfrastructure(underlyingInfrastructure)
              THEN "TypeError"
              ELSE "ok"
       IN  /\ dmCall' = called("constructor", deployedEntity,
                               underlyingInfrastructure, outcome)
           /\ mapping' =
                 IF outcome = "ok"
                 THEN [exists |-> TRUE, id |-> id, deployedEntity |-> deployedEntity,
                       underlyingInfrastructure |-> underlyingInfrastructure]
                 ELSE NoMapping
    /\ UNCHANGED <<sanVars, exportVars, converterVars, linkVars,
                   concurrentVars, relationVars>>

\* set setDeployedEntity(newDeployedEntity)
SetDeployedEntity(newDeployedEntity) ==
    /\ mapping.exists
    /\ LET outcome ==
              IF ~(instanceofComponent(newDeployedEntity)
                   \/ instanceofInfrastructure(newDeployedEntity))
              THEN "TypeError"
              ELSE IF JSONstringify(newDeployedEntity)
                          = JSONstringify(mapping.underlyingInfrastructure)
              THEN "Error"
              ELSE "ok"
       IN  /\ dmCall' = called("setDeployedEntity", newDeployedEntity, NoEntity, outcome)
           /\ mapping' =
                 IF outcome = "ok"
                 THEN [mapping EXCEPT !.deployedEntity = newDeployedEntity]
                 ELSE mapping
    /\ UNCHANGED <<sanVars, exportVars, converterVars, linkVars,
                   concurrentVars, relationVars>>

\* set setUnderlyingInfrastructure(newUnderlyingInfrastructure)
SetUnderlyingInfrastructure(newUnderlyingInfrastructure) ==
    /\ mapping.exists
    /\ LET outcome ==
              IF JSONstringify(newUnderlyingInfrastructure)
                     = JSONstringify(mapping.deployedEntity)
              THEN "Error"
              ELSE "ok"
       IN  /\ dmCall' = called("setUnderlyingInfrastructure", NoEntity,
                               newUnderlyingInfrastructure, outcome)
           /\ mapping' =
                 IF outcome = "ok"
                 THEN [mapping EXCEPT
                          !.underlyingInfrastructure = newUnderlyingInfrastructure]
                 ELSE mapping
    /\ UNCHANGED <<sanVars, exportVars, converterVars, linkVars,
                   concurrentVars, relationVars>>

NextDeployment ==
    \/ \E d \in Entities, u \in Entities : NewDeploymentMapping("m1", d, u)
    \/ \E d \in Entities : SetDeployedEntity(d)
    \/ \E u \in Entities : SetUnderlyingInfrastructure(u)

SpecDeployment == InitDeployment /\ [][NextDeployment]_vars

\* C7: constructing a DeploymentMapping whose deployed entity and underlying
\* infrastructure have the same id fails with an error and creates no mapping.
C7_SameIdRejected ==
    (dmCall.op = "constructor"
        /\ dmCall.deployedEntity.id = dmCall.underlyingInfrastructure.id)
    => (dmCall.outcome \in {"Error", "TypeError"} /\ mapping = NoMapping)

\* C7 witness: the constructor was called with a Component and an
\* Infrastructure of the same id and of different serializations
C7_Witness ==
    /\ dmCall.op = "constructor"
    /\ dmCall.deployedEntity.id = dmCall.underlyingInfrastructure.id
    /\ instanceofComponent(dmCall.deployedEntity)
    /\ instanceofInfrastructure(dmCall.underlyingInfrastructure)
    /\ JSONstringify(dmCall.deployedEntity)
           # JSONstringify(dmCall.underlyingInfrastructure)
    /\ dmCall.outcome = "Error"

\* C8: in a constructed DeploymentMapping the id of the deployed entity
\* always differs from the id of the underlying infrastructure, whatever
\* setters were called.
C8_IdsDiffer ==
    mapping.exists =>
        mapping.deployedEntity.id # mapping.underlyingInfrastructure.id

\* C9: the constructor and setDeployedEntity, given a deployed entity that is
\* neither a Component nor an Infrastructure, fail with a TypeError whatever
\* the ids are.
C9_WrongDeployedTypeIsTypeError ==
    (dmCall.op \in {"constructor", "setDeployedEntity"}
        /\ ~(instanceofComponent(dmCall.deployedEntity)
             \/ instanceofInfrastructure(dmCall.deployedEntity)))
    => dmCall.outcome = "TypeError"

\* C10: setUnderlyingInfrastructure, given an entity that is not an
\* Infrastructure, throws a TypeError and leaves the underlying
\* infrastructure of the mapping unchanged.
C10_WrongUnderlyingTypeIsTypeError ==
    [][\A u \in Entities :
          (SetUnderlyingInfrastructure(u) /\ ~instanceofInfrastructure(u))
          => (dmCall'.outcome = "TypeError"
              /\ mapping'.underlyingInfrastructure = mapping.underlyingInfrastructure)]_vars

--------------------------------------------------------------------------
(* RelationToDataAggregate, RelationToBackingData *)

ATTACHES_TO_TOSCA_KEY == "cna.qualityModel.relationships.AttachesTo.Data"
ATTACHES_TO_BACKING_DATA_TOSCA_KEY ==
    "cna.qualityModel.relationships.AttachesTo.BackingData"

\* cna_modeling_tosca_profile.relationship_types[key]: the property keys the
\* relationship type declares, in their order; undefined for a key the
\* profile does not have
relationship_types(key) ==
    CASE key = "cna.qualityModel.entities.ConnectsTo.Link" ->
             <<"relation_type", "timeout">>
      [] key = "cna.qualityModel.relationships.Provides.Endpoint" -> <<>>
      [] key = "cna.qualityModel.relationships.AttachesTo.DataAggregate" ->
             <<"location", "usage_relation", "sharding_level">>
      [] key = "cna.qualityModel.relationships.AttachesTo.BackingData" ->
             <<"location", "usage_relation">>
      [] OTHER -> Undefined

RelationClasses == {"RelationToDataAggregate", "RelationToBackingData"}
RelationIds == {"r1", "r2", "r3"}

\* the key a class looks its relationship type up with (line 10 of each file)
toscaKeyOf(class) ==
    IF class = "RelationToDataAggregate" THEN ATTACHES_TO_TOSCA_KEY
    ELSE ATTACHES_TO_BACKING_DATA_TOSCA_KEY

\* loadAllProperties of common/entityProperty: one EntityProperty per declared
\* property, holding no value yet; what it does with an undefined type
\* definition is not known: it throws, or it finds no properties
loadAllProperties(definition) ==
    IF definition = Undefined THEN {Thrown, Value(<<>>)}
    ELSE {Value([i \in 1..Len(definition) |->
                    [class |-> "EntityProperty", key |-> definition[i],
                     value |-> Undefined]])}

\* getDataAggregateRelationshipProperties, getBackingDataRelationshipProperties:
\* usage_relation becomes a SelectEntityProperty, location is filtered out
getRelationshipProperties(parsed) ==
    SelectSeq([i \in 1..Len(parsed) |->
                  IF parsed[i].key = "usage_relation"
                  THEN [class |-> "SelectEntityProperty", key |-> parsed[i].key,
                        value |-> parsed[i].value]
                  ELSE parsed[i]],
              LAMBDA prop : prop.key # "location")

\* the keys and the values setPropertyValue is called with
PropertyKeys == {"usage_relation", "sharding_level", "location", "unknown"}
PropertyValues == {"usage", "persistence", "1"}

InitRelation ==
    /\ relation = NoRelation
    /\ relationCall = [op |-> "none", outcome |-> "ok"]
    /\ SanIdle /\ ExportIdle /\ ConverterIdle /\ LinkIdle /\ DMIdle
    /\ ConcurrentIdle

\* new RelationToDataAggregate(id, metaData), new RelationToBackingData(id, metaData)
NewRelation(class, id) ==
    /\ ~relation.exists
    /\ \E parsed \in loadAllProperties(relationship_types(toscaKeyOf(class))) :
           IF parsed.thrown
           THEN /\ relation' = NoRelation
                /\ relationCall' = [op |-> "constructor", key |-> class,
                                    value |-> id, outcome |-> "TypeError"]
           ELSE /\ relation' = [exists |-> TRUE, class |-> class, id |-> id,
                                metaData |-> <<"metaData", id>>,
                                properties |->
                                    getRelationshipProperties(parsed.value)]
                /\ relationCall' = [op |-> "constructor", key |-> class,
                                    value |-> id, outcome |-> "ok"]
    /\ UNCHANGED <<sanVars, exportVars, converterVars, linkVars, dmVars,
                   concurrentVars>>

\* this.#properties.find(property => property.getKey === propertyKey)
findProperty(properties, propertyKey) ==
    IF \E i \in 1..Len(properties) : properties[i].key = propertyKey
    THEN CHOOSE i \in 1..Len(properties) :
             /\ properties[i].key = propertyKey
             /\ \A j \in 1..(i - 1) : properties[j].key # propertyKey
    ELSE 0

\* a mutant: a property that is not found is added to the list
SetPropertyValue_AddsMissing(propertyKey, newValue) ==
    /\ relation.exists
    /\ LET propertyToSet == findProperty(relation.properties, propertyKey)
       IN  /\ relation' =
                  IF propertyToSet # 0
                  THEN [relation EXCEPT
                           !.properties[propertyToSet].value = newValue]
                  ELSE [relation EXCEPT
                           !.properties =
                               Append(@, [class |-> "EntityProperty",
                                          key |-> propertyKey,
                                          value |-> newValue])]
           /\ relationCall' = [op |-> "setPropertyValue", key |-> propertyKey,
                               value |-> newValue, outcome |-> "ok"]
    /\ UNCHANGED <<sanVars, exportVars, converterVars, linkVars, dmVars,
                   concurrentVars>>

\* setPropertyValue(propertyKey, propertyValue)
SetPropertyValue(propertyKey, newValue) ==
    /\ relation.exists
    /\ LET propertyToSet == findProperty(relation.properties, propertyKey)
       IN  IF propertyToSet # 0
           THEN /\ relation' = [relation EXCEPT
                                   !.properties[propertyToSet].value = newValue]
                /\ relationCall' = [op |-> "setPropertyValue", key |-> propertyKey,
                                    value |-> newValue, outcome |-> "ok"]
           ELSE /\ relation' = relation
                /\ relationCall' = [op |-> "setPropertyValue", key |-> propertyKey,
                                    value |-> newValue, outcome |-> "Error"]
    /\ UNCHANGED <<sanVars, exportVars, converterVars, linkVars, dmVars,
                   concurrentVars>>

NextRelation ==
    \/ \E class \in RelationClasses, id \in RelationIds : NewRelation(class, id)
    \/ \E propertyKey \in PropertyKeys, newValue \in PropertyValues :
           SetPropertyValue(propertyKey, newValue)

SpecRelation == InitRelation /\ [][NextRelation]_vars

\* the keys of the property list, in its order
keysOf(properties) == [i \in 1..Len(properties) |-> properties[i].key]

\* C28: over any sequence of setPropertyValue calls on a relation, the
\* property keys never change and never include "location"; a call with a key
\* of the list sets the value of that property and changes nothing else; a
\* call with any other key throws an Error and changes nothing.
C28_SetPropertyValueFrame ==
    /\ [](relation.exists =>
              \A i \in 1..Len(relation.properties) :
                  relation.properties[i].key # "location")
    /\ [][relation.exists =>
              /\ relation'.exists
              /\ keysOf(relation'.properties) = keysOf(relation.properties)
              /\ relation'.id = relation.id
              /\ relation'.class = relation.class
              /\ relation'.metaData = relation.metaData
              /\ relationCall'.op = "setPropertyValue"
              /\ IF \E i \in 1..Len(relation.properties) :
                        relation.properties[i].key = relationCall'.key
                 THEN /\ relationCall'.outcome = "ok"
                      /\ \A i \in 1..Len(relation.properties) :
                             IF relation.properties[i].key = relationCall'.key
                             THEN relation'.properties[i].value = relationCall'.value
                             ELSE relation'.properties[i] = relation.properties[i]
                 ELSE /\ relationCall'.outcome = "Error"
                      /\ relation' = relation]_vars

\* C28 witness: on a relation to backing data, usage_relation was set to
\* "persistence", and then a call with the key "location" threw
C28_Witness ==
    /\ relation.exists
    /\ relation.class = "RelationToBackingData"
    /\ keysOf(relation.properties) = <<"usage_relation">>
    /\ relation.properties[1].value = "persistence"
    /\ relationCall = [op |-> "setPropertyValue", key |-> "location",
                       value |-> "usage", outcome |-> "Error"]



==========================================================================
